---- MODULE Spec2Model ----
(***************************************************************************)
(* Canonical-vehicle entity resolution of MercadoSniper:                   *)
(*   backend/services/canonical_vehicle_service.py  (matcher, registry,    *)
(*                                                   statistics)           *)
(*   backend/services/vehicle_service.py            (listing ingestion)    *)
(*                                                                         *)
(* Text is a sequence of one-character strings, so that normalisation,     *)
(* regular-expression filters, SequenceMatcher.ratio and the engine        *)
(* comparison are computed character by character as the code does.        *)
(* Python's None and "" are both falsy and the code only ever tests        *)
(* truthiness, so both are the empty sequence.                              *)
(***************************************************************************)
EXTENDS Integers, Sequences, FiniteSets, TLC

(***************************************************************************)
(* Characters                                                              *)
(***************************************************************************)
UpperChars == <<"A","B","C","D","E","F","G","H","I","J","K","L","M",
                "N","O","P","Q","R","S","T","U","V","W","X","Y","Z">>
LowerChars == <<"a","b","c","d","e","f","g","h","i","j","k","l","m",
                "n","o","p","q","r","s","t","u","v","w","x","y","z">>
DigitChars == <<"0","1","2","3","4","5","6","7","8","9">>

Range(s) == {s[i] : i \in DOMAIN s}

\* str.lower() on one character
LowerChar(c) ==
    IF c \in Range(UpperChars)
    THEN LowerChars[CHOOSE i \in DOMAIN UpperChars : UpperChars[i] = c]
    ELSE c

\* two characters outside ASCII, named by their code points: LATIN CAPITAL
\* LETTER I WITH DOT ABOVE, a letter whose lower case is "i" followed by
\* COMBINING DOT ABOVE, a mark that is neither a letter nor a digit
DottedCapitalI == "U+0130"
CombiningDot == "U+0307"

RECURSIVE Lower(_)
\* str.lower()
Lower(s) ==
    IF s = <<>> THEN <<>>
    ELSE (IF Head(s) = DottedCapitalI THEN <<"i", CombiningDot>> ELSE <<LowerChar(Head(s))>>)
         \o Lower(Tail(s))

IsDigit(c) == c \in Range(DigitChars)
\* the regular-expression class \w
IsWordChar(c) ==
    c \in Range(UpperChars) \cup Range(LowerChars) \cup Range(DigitChars) \cup {"_", DottedCapitalI}
\* the regular-expression class \s
IsSpaceChar(c) == c = " "

DigitValue(c) == (CHOOSE i \in DOMAIN DigitChars : DigitChars[i] = c) - 1

None == <<>>
\* Python truthiness of an Optional[str]
Truthy(s) == s # <<>>

(***************************************************************************)
(* _normalize_string                                                       *)
(***************************************************************************)
RECURSIVE HyphensToSpace(_)
\* re.sub(r'[-_]+', ' ', text): every maximal run of - and _ becomes one space
HyphensToSpace(s) ==
    IF s = <<>> THEN <<>>
    ELSE IF Head(s) \in {"-", "_"}
         THEN IF Len(s) > 1 /\ s[2] \in {"-", "_"}
              THEN HyphensToSpace(Tail(s))
              ELSE <<" ">> \o HyphensToSpace(Tail(s))
         ELSE <<Head(s)>> \o HyphensToSpace(Tail(s))

\* re.sub(r'[^\w\s]', '', text)
DropPunctuation(s) == SelectSeq(s, LAMBDA c : IsWordChar(c) \/ IsSpaceChar(c))

RECURSIVE CollapseSpaces(_)
\* re.sub(r'\s+', ' ', text)
CollapseSpaces(s) ==
    IF s = <<>> THEN <<>>
    ELSE IF IsSpaceChar(Head(s))
         THEN IF Len(s) > 1 /\ IsSpaceChar(s[2])
              THEN CollapseSpaces(Tail(s))
              ELSE <<" ">> \o CollapseSpaces(Tail(s))
         ELSE <<Head(s)>> \o CollapseSpaces(Tail(s))

RECURSIVE LStrip(_)
LStrip(s) == IF s # <<>> /\ IsSpaceChar(Head(s)) THEN LStrip(Tail(s)) ELSE s

RECURSIVE RStrip(_)
RStrip(s) == IF s # <<>> /\ IsSpaceChar(s[Len(s)]) THEN RStrip(SubSeq(s, 1, Len(s) - 1)) ELSE s

\* str.strip()
Strip(s) == RStrip(LStrip(s))

\* a _normalize_string that forgets .lower()
NormalizeKeepingCase(text) ==
    IF ~Truthy(text) THEN <<>>
    ELSE Strip(CollapseSpaces(DropPunctuation(HyphensToSpace(text))))

NormalizeString(text) ==
    IF ~Truthy(text) THEN <<>>
    ELSE Strip(Lower(CollapseSpaces(DropPunctuation(HyphensToSpace(text)))))

(***************************************************************************)
(* difflib.SequenceMatcher(None, a, b).ratio()                             *)
(* No junk: isjunk is None and the autojunk heuristic needs 200 elements.  *)
(***************************************************************************)
\* length of the common run of a from i and b from j
RECURSIVE RunLength(_, _, _, _)
RunLength(a, b, i, j) ==
    IF i <= Len(a) /\ j <= Len(b) /\ a[i] = b[j]
    THEN 1 + RunLength(a, b, i + 1, j + 1)
    ELSE 0

\* find_longest_match: the longest block; of those the earliest in a; of those
\* the earliest in b.  <<i, j, k>> with k = 0 when nothing matches.
FindLongestMatch(a, b) ==
    LET blocks == {<<i, j, RunLength(a, b, i, j)>> : i \in DOMAIN a, j \in DOMAIN b}
        better(x, y) == \/ x[3] > y[3]
                        \/ x[3] = y[3] /\ x[1] < y[1]
                        \/ x[3] = y[3] /\ x[1] = y[1] /\ x[2] <= y[2]
    IN  IF blocks = {} THEN <<1, 1, 0>>
        ELSE CHOOSE x \in blocks : \A y \in blocks : better(x, y)

\* get_matching_blocks, summed: the block, then the same to its left and right
RECURSIVE MatchingCount(_, _)
MatchingCount(a, b) ==
    IF a = <<>> \/ b = <<>> THEN 0
    ELSE LET m == FindLongestMatch(a, b)
         IN  IF m[3] = 0 THEN 0
             ELSE MatchingCount(SubSeq(a, 1, m[1] - 1), SubSeq(b, 1, m[2] - 1))
                  + m[3]
                  + MatchingCount(SubSeq(a, m[1] + m[3], Len(a)), SubSeq(b, m[2] + m[3], Len(b)))

\* ratio() = 2.0 * matches / (len(a) + len(b)), 1.0 for two empty strings;
\* the fraction <<numerator, denominator>>
Ratio(a, b) ==
    IF Len(a) + Len(b) = 0 THEN <<1, 1>>
    ELSE <<2 * MatchingCount(a, b), Len(a) + Len(b)>>

(***************************************************************************)
(* _similar_engines                                                        *)
(***************************************************************************)
\* the end (exclusive) of the digit run of s that starts at i
RECURSIVE DigitsEnd(_, _)
DigitsEnd(s, i) == IF i <= Len(s) /\ IsDigit(s[i]) THEN DigitsEnd(s, i + 1) ELSE i

\* re.findall(r'\d+\.?\d*', s) from position i: the tokens, left to right
RECURSIVE FindNumbers(_, _)
FindNumbers(s, i) ==
    IF i > Len(s) THEN <<>>
    ELSE IF ~IsDigit(s[i]) THEN FindNumbers(s, i + 1)
    ELSE LET e1 == DigitsEnd(s, i)
             e2 == IF e1 <= Len(s) /\ s[e1] = "." THEN DigitsEnd(s, e1 + 1) ELSE e1
         IN  <<SubSeq(s, i, e2 - 1)>> \o FindNumbers(s, e2)

RECURSIVE DigitsToInt(_)
DigitsToInt(ds) ==
    IF ds = <<>> THEN 0
    ELSE 10 * DigitsToInt(SubSeq(ds, 1, Len(ds) - 1)) + DigitValue(ds[Len(ds)])

RECURSIVE Pow10(_)
Pow10(n) == IF n = 0 THEN 1 ELSE 10 * Pow10(n - 1)

\* float(token) as the exact decimal <<mantissa, number of fraction digits>>
ParseFloat(tok) ==
    LET digits == SelectSeq(tok, IsDigit)
        dot    == IF \E i \in DOMAIN tok : tok[i] = "."
                  THEN CHOOSE i \in DOMAIN tok : tok[i] = "." ELSE Len(tok)
    IN  <<DigitsToInt(digits), Len(tok) - dot>>

Abs(x) == IF x < 0 THEN -x ELSE x

\* abs(float(num1) - float(num2)) < 0.1
NumbersClose(t1, t2) ==
    LET p  == ParseFloat(t1)
        q  == ParseFloat(t2)
        f  == IF p[2] > q[2] THEN p[2] ELSE q[2]
        x  == p[1] * Pow10(f - p[2])
        y  == q[1] * Pow10(f - q[2])
    IN  10 * Abs(x - y) < Pow10(f)

\* str.split(): the whitespace-separated words of s
RECURSIVE SplitWords(_)
SplitWords(s) ==
    LET t == LStrip(s)
    IN  IF t = <<>> THEN {}
        ELSE LET n == IF \E i \in DOMAIN t : IsSpaceChar(t[i])
                      THEN (CHOOSE i \in DOMAIN t :
                               IsSpaceChar(t[i]) /\ \A k \in 1..(i - 1) : ~IsSpaceChar(t[k])) - 1
                      ELSE Len(t)
             IN  {SubSeq(t, 1, n)} \cup SplitWords(SubSeq(t, n + 1, Len(t)))

\* some pair of numeric tokens differs by less than 0.1
SharesNumber(engine1, engine2) ==
    LET n1 == FindNumbers(Lower(engine1), 1)
        n2 == FindNumbers(Lower(engine2), 1)
    IN  \E i \in DOMAIN n1 : \E j \in DOMAIN n2 : NumbersClose(n1[i], n2[j])

\* the keyword fallback divides by len(words1 | words2): ZeroDivisionError when
\* neither engine has a digit or a word character
SimilarEnginesRaises(engine1, engine2) ==
    /\ Truthy(engine1) /\ Truthy(engine2)
    /\ ~SharesNumber(engine1, engine2)
    /\ SplitWords(NormalizeString(engine1)) \cup SplitWords(NormalizeString(engine2)) = {}

\* the value _similar_engines returns when it does not raise
SimilarEngines(engine1, engine2) ==
    IF ~Truthy(engine1) \/ ~Truthy(engine2) THEN FALSE
    ELSE IF SharesNumber(engine1, engine2) THEN TRUE
    ELSE LET w1 == SplitWords(NormalizeString(engine1))
             w2 == SplitWords(NormalizeString(engine2))
             overlap == Cardinality(w1 \cap w2)
         IN  overlap >= 2 \/ 2 * overlap > Cardinality(w1 \cup w2)

(***************************************************************************)
(* The text values of the model, and the pure text functions tabulated     *)
(* over them (each table entry is the function's value, computed once)     *)
(***************************************************************************)
sUnknown == <<"U","n","k","n","o","w","n">>
sHonda   == <<"H","o","n","d","a">>
sHONDA   == <<"H","O","N","D","A">>
sHondas  == <<"H","o","n","d","a","s">>
sCivic   == <<"C","i","v","i","c">>
sCIVIC   == <<"C","I","V","I","C">>
sCX5     == <<"C","X","-","5">>
sCX5sp   == <<"C","X"," ","5">>
s2020    == <<"2","0","2","0">>
s2020sp  == <<"2","0","2","0"," ">>
s2019    == <<"2","0","1","9">>
sLX      == <<"L","X">>
sLx      == <<"L","x">>
sEX      == <<"E","X">>
sEXL     == <<"E","X","L">>
sEXLS    == <<"E","X","L","S">>
sSEL     == <<"S","E","L">>
s15LTurbo == <<"1",".","5","L"," ","T","u","r","b","o">>
s15Turbo == <<"1",".","5"," ","T","u","r","b","o">>
s20      == <<"2",".","0">>
sDash    == <<"-">>
sKm45    == <<"4","5",".","0","0","0"," ","k","m">>

Vocabulary ==
    { None, sUnknown, sHonda, sHONDA, sHondas, sCivic, sCIVIC, sCX5, sCX5sp, s2020, s2020sp, s2019,
      sLX, sLx, sEX, sEXL, sEXLS, sSEL, s15LTurbo, s15Turbo, s20, sDash, sKm45 }

NormalizedVocabulary == {NormalizeString(s) : s \in Vocabulary}

NormalizeTable == [s \in Vocabulary |-> NormalizeString(s)]
RatioTable == [p \in NormalizedVocabulary \X NormalizedVocabulary |-> Ratio(p[1], p[2])]
EnginesRaiseTable == [p \in Vocabulary \X Vocabulary |-> SimilarEnginesRaises(p[1], p[2])]
EnginesTable ==
    [p \in Vocabulary \X Vocabulary |->
        IF SimilarEnginesRaises(p[1], p[2]) THEN FALSE ELSE SimilarEngines(p[1], p[2])]

\* self._normalize_string(text)
Norm(text) == NormalizeTable[text]
\* SequenceMatcher(None, a, b).ratio()
SeqRatio(a, b) == RatioTable[<<a, b>>]
\* self._similar_engines(e1, e2): whether it raises, and its value otherwise
EnginesRaise(e1, e2) == EnginesRaiseTable[<<e1, e2>>]
EnginesSimilar(e1, e2) == EnginesTable[<<e1, e2>>]

(***************************************************************************)
(* Fractions <<numerator, denominator>>, denominator > 0: the exact values *)
(* of the code's float expressions                                         *)
(***************************************************************************)
RECURSIVE Gcd(_, _)
Gcd(a, b) == IF b = 0 THEN a ELSE Gcd(b, a % b)

\* the value of the float division a / b (b > 0), in lowest terms
Quotient(a, b) == LET g == Gcd(a, b) IN IF g = 0 THEN <<0, 1>> ELSE <<a \div g, b \div g>>

FracAdd(p, q) == <<p[1] * q[2] + q[1] * p[2], p[2] * q[2]>>
FracScale(k, p) == <<k * p[1], p[2]>>
\* p >= n / 100
FracAtLeastPercent(p, n) == 100 * p[1] >= n * p[2]
FracLess(p, q) == p[1] * q[2] < q[1] * p[2]
FracEq(p, q) == p[1] * q[2] = q[1] * p[2]

(***************************************************************************)
(* _is_exact_match and _calculate_similarity                               *)
(* v: the listing's attributes, c: a canonical document                    *)
(***************************************************************************)
\* weights and thresholds in hundredths
BrandWeight == 25
ModelWeight == 25
YearWeight == 20
EditionWeight == 20
EngineWeight == 10
NarrowThreshold == 90
BroadThreshold == 95
BroadLimit == 50

\* "true", "false", or "raise" when _similar_engines raises ZeroDivisionError
IsExactMatch(v, c) ==
    IF Norm(v.brand) # Norm(c.brand) THEN "false"
    ELSE IF Norm(v.model) # Norm(c.model) THEN "false"
    ELSE IF Truthy(v.year) /\ Truthy(c.year) /\ v.year # c.year THEN "false"
    ELSE IF /\ Truthy(v.edition) /\ Truthy(c.edition)
            /\ Norm(v.edition) # Norm(c.edition) THEN "false"
    ELSE IF Truthy(v.engine) /\ Truthy(c.engine)
         THEN IF EnginesRaise(v.engine, c.engine) THEN "raise"
              ELSE IF ~EnginesSimilar(v.engine, c.engine) THEN "false"
              ELSE "true"
    ELSE "true"

\* _calculate_similarity raises exactly when it reaches _similar_engines and that raises
CalculateSimilarityRaises(v, c) ==
    Truthy(v.engine) /\ Truthy(c.engine) /\ EnginesRaise(v.engine, c.engine)

\* a score divided by the weights of all five fields, present or not
WeightedOverAllFields(score, totalWeight) ==
    Quotient(score[1], score[2] * (BrandWeight + ModelWeight + YearWeight + EditionWeight + EngineWeight))

\* score / total_weight if total_weight > 0 else 0.0
Weighted(score, totalWeight) ==
    IF totalWeight > 0 THEN Quotient(score[1], score[2] * totalWeight) ELSE <<0, 1>>

\* a year term that is granted to any two years that are present
YearSimilarityAnyYear(v, c) ==
    IF Truthy(v.year) /\ Truthy(c.year) THEN <<YearWeight, 1>> ELSE <<0, 1>>

\* the year term of the score: the whole weight for equal years, nothing otherwise
YearSimilarity(v, c) ==
    IF Truthy(v.year) /\ Truthy(c.year) /\ v.year = c.year THEN <<YearWeight, 1>> ELSE <<0, 1>>

\* score / total_weight as a fraction (0 when no field is present on both sides)
CalculateSimilarity(v, c) ==
    LET hasBrand   == Truthy(v.brand) /\ Truthy(c.brand)
        hasModel   == Truthy(v.model) /\ Truthy(c.model)
        hasYear    == Truthy(v.year) /\ Truthy(c.year)
        hasEdition == Truthy(v.edition) /\ Truthy(c.edition)
        hasEngine  == Truthy(v.engine) /\ Truthy(c.engine)
        brandSim   == IF hasBrand
                      THEN FracScale(BrandWeight, SeqRatio(Norm(v.brand), Norm(c.brand)))
                      ELSE <<0, 1>>
        modelSim   == IF hasModel
                      THEN FracScale(ModelWeight, SeqRatio(Norm(v.model), Norm(c.model)))
                      ELSE <<0, 1>>
        yearSim    == YearSimilarity(v, c)
        editionSim == IF hasEdition
                      THEN FracScale(EditionWeight, SeqRatio(Norm(v.edition), Norm(c.edition)))
                      ELSE <<0, 1>>
        engineSim  == IF hasEngine /\ EnginesSimilar(v.engine, c.engine)
                      THEN <<EngineWeight, 1>> ELSE <<0, 1>>
        score      == FracAdd(FracAdd(FracAdd(FracAdd(brandSim, modelSim), yearSim), editionSim), engineSim)
        totalWeight == (IF hasBrand THEN BrandWeight ELSE 0) + (IF hasModel THEN ModelWeight ELSE 0)
                       + (IF hasYear THEN YearWeight ELSE 0) + (IF hasEdition THEN EditionWeight ELSE 0)
                       + (IF hasEngine THEN EngineWeight ELSE 0)
    IN  Weighted(score, totalWeight)

(***************************************************************************)
(* Identifiers.  A canonical document's _id is an ObjectId; listings and   *)
(* callers hold its string form.  The n-th inserted document is number n.  *)
(***************************************************************************)
ObjectId(s) == <<"oid", s>>
Str(oid) == oid[2]
\* the None a lookup returns
NoId == 0
\* an exception leaving a loop of the matcher
Raised == -1

(***************************************************************************)
(* _find_matching_canonical                                                *)
(***************************************************************************)
\* {"$regex": "^" + re.escape(pattern) + "$", "$options": "i"}
RegexFullMatchI(pattern, value) == Truthy(value) /\ Lower(pattern) = Lower(value)

\* {"$regex": pattern, "$options": "i"} for a pattern without metacharacters:
\* the pattern occurs somewhere in the value
RegexSearchI(pattern, value) ==
    /\ Truthy(value)
    /\ \E i \in 1..(Len(value) - Len(pattern) + 1) :
          SubSeq(Lower(value), i, i + Len(pattern) - 1) = Lower(pattern)

HasNarrowQuery(v) == Truthy(v.brand) \/ Truthy(v.model) \/ Truthy(v.year)

NarrowMatches(v, c) ==
    /\ Truthy(v.brand) => RegexFullMatchI(v.brand, c.brand)
    /\ Truthy(v.model) => RegexFullMatchI(v.model, c.model)
    /\ Truthy(v.year) => c.year = v.year

\* find(query).to_list(length=None): the matching documents in insertion order
NarrowCandidates(v, store) == SelectSeq(store, LAMBDA c : NarrowMatches(v, c))

BroadMatches(v, c) == RegexSearchI(v.brand, c.brand) /\ RegexSearchI(v.model, c.model)

\* find(broad_query).to_list(length=50)
BroadCandidates(v, store) ==
    LET all == SelectSeq(store, LAMBDA c : BroadMatches(v, c))
    IN  SubSeq(all, 1, IF Len(all) < BroadLimit THEN Len(all) ELSE BroadLimit)

RECURSIVE ExactScan(_, _, _)
\* the body of the first loop at candidate i, r being _is_exact_match's outcome
ExactStep(r, v, cands, i) ==
    IF r = "raise" THEN Raised
    ELSE IF r = "true" THEN Str(cands[i].id)
    ELSE ExactScan(v, cands, i + 1)

\* the first loop: the first candidate that matches exactly
ExactScan(v, cands, i) ==
    IF i > Len(cands) THEN NoId
    ELSE ExactStep(IsExactMatch(v, cands[i]), v, cands, i)

\* the fuzzy loops: the first candidate whose score reaches the threshold
RECURSIVE FuzzyScan(_, _, _, _)
FuzzyScan(v, cands, i, threshold) ==
    IF i > Len(cands) THEN NoId
    ELSE IF CalculateSimilarityRaises(v, cands[i]) THEN Raised
    ELSE IF FracAtLeastPercent(CalculateSimilarity(v, cands[i]), threshold) THEN Str(cands[i].id)
    ELSE FuzzyScan(v, cands, i + 1, threshold)

\* the loops run one after the other: the second only if the first returned nothing
OrElse(first, second) == IF first # NoId THEN first ELSE second

\* the two loops over the narrow candidates
ScanNarrow(v, cands) ==
    OrElse(ExactScan(v, cands, 1), FuzzyScan(v, cands, 1, NarrowThreshold))

\* the narrow phase: an id, NoId when it falls through, Raised
NarrowPhase(v, store) ==
    IF ~HasNarrowQuery(v) THEN NoId ELSE ScanNarrow(v, NarrowCandidates(v, store))

\* the broad phase, entered when the narrow phase fell through
BroadPhase(v, store) ==
    IF Truthy(v.brand) /\ Truthy(v.model)
    THEN FuzzyScan(v, BroadCandidates(v, store), 1, BroadThreshold)
    ELSE NoId

\* except Exception: return None
Caught(r) == IF r = Raised THEN NoId ELSE r

\* the id of the matching canonical vehicle or NoId; every exception is caught
\* and becomes NoId.  queryFails: the storage query raises.
FindMatchingCanonical(v, store, queryFails) ==
    IF queryFails /\ (HasNarrowQuery(v) \/ (Truthy(v.brand) /\ Truthy(v.model))) THEN NoId
    ELSE Caught(OrElse(NarrowPhase(v, store), BroadPhase(v, store)))

(***************************************************************************)
(* Documents                                                               *)
(***************************************************************************)

\* CanonicalVehicleStatus / VehicleStatus values used by the services
StatusActive == "active"
StatusMerged == "merged"
StatusSold == "sold"

\* an unset Optional[float] statistic
NoPrice == 0
NoFrac == <<0, 1>>

\* the document create_canonical_vehicle inserts for a listing that matched nothing
NewCanonical(v, n) ==
    [id |-> ObjectId(n),
     brand |-> IF Truthy(v.brand) THEN v.brand ELSE sUnknown,
     model |-> IF Truthy(v.model) THEN v.model ELSE sUnknown,
     year |-> v.year, edition |-> v.edition, engine |-> v.engine,
     status |-> StatusActive,
     total_listings |-> 0, active_listings |-> 0, total_views |-> 0,
     min_price |-> NoPrice, max_price |-> NoPrice, avg_price |-> NoFrac,
     median_price |-> NoPrice, average_kilometers |-> NoFrac]

\* the document create_or_update_vehicle inserts for a new listing
NewVehicle(vd, n, canonical_id) ==
    [id |-> ObjectId(n), mercadolibre_id |-> vd.mercadolibre_id,
     brand |-> vd.brand, model |-> vd.model, year |-> vd.year,
     edition |-> vd.edition, engine |-> vd.engine,
     price_numeric |-> vd.price_numeric, kilometers |-> vd.kilometers,
     status |-> StatusActive, views_count |-> 0,
     canonical_vehicle_id |-> canonical_id]

(***************************************************************************)
(* update_canonical_vehicle_stats                                          *)
(***************************************************************************)
RECURSIVE SeqSum(_)
SeqSum(s) == IF s = <<>> THEN 0 ELSE Head(s) + SeqSum(Tail(s))

SeqMin(s) == CHOOSE x \in Range(s) : \A y \in Range(s) : x <= y
SeqMax(s) == CHOOSE x \in Range(s) : \A y \in Range(s) : x >= y

RECURSIVE InsertSorted(_, _)
InsertSorted(x, s) ==
    IF s = <<>> THEN <<x>>
    ELSE IF x <= Head(s) THEN <<x>> \o s
    ELSE <<Head(s)>> \o InsertSorted(x, Tail(s))

RECURSIVE Sorted(_)
\* sorted(prices)
Sorted(s) == IF s = <<>> THEN <<>> ELSE InsertSorted(Head(s), Sorted(Tail(s)))

\* km_str.replace(",", "").replace(".", "")
DropSeparators(s) == SelectSeq(s, LAMBDA c : c \notin {",", "."})

\* re.search(r'(\d+)', ...): the first run of digits, <<>> when there is none
FirstDigits(s) ==
    IF \E i \in DOMAIN s : IsDigit(s[i])
    THEN LET i == CHOOSE k \in DOMAIN s : IsDigit(s[k]) /\ \A j \in 1..(k - 1) : ~IsDigit(s[j])
         IN  SubSeq(s, i, DigitsEnd(s, i) - 1)
    ELSE <<>>

\* the kilometers_values of the listings
RECURSIVE KilometersValues(_)
KilometersValues(listings) ==
    IF listings = <<>> THEN <<>>
    ELSE LET km == Head(listings).kilometers
             m  == FirstDigits(DropSeparators(km))
         IN  (IF Truthy(km) /\ m # <<>> THEN <<DigitsToInt(m)>> ELSE <<>>)
             \o KilometersValues(Tail(listings))

RECURSIVE Column(_, _)
Column(listings, field) ==
    IF listings = <<>> THEN <<>> ELSE <<Head(listings)[field]>> \o Column(Tail(listings), field)

\* the lower of the two middle elements when the count is even
LowerMedian(prices) == Sorted(prices)[(Len(prices) + 1) \div 2]

\* sorted(prices)[len(prices) // 2], Python indexes counting from 0
MedianPrice(prices) == Sorted(prices)[(Len(prices) \div 2) + 1]

\* a $set that adds the views of the listings to the views already counted
WithViewsAdded(c, listings) ==
    [c EXCEPT !.total_listings = Len(listings),
              !.active_listings = Len(listings),
              !.total_views = c.total_views + SeqSum(Column(listings, "views_count"))]

\* the $set of update_canonical_vehicle_stats applied to document c
WithStats(c, listings) ==
    LET prices == SelectSeq(Column(listings, "price_numeric"), LAMBDA p : p # 0)
        kms    == KilometersValues(listings)
        c1 == [c EXCEPT !.total_listings = Len(listings),
                        !.active_listings = Len(listings),
                        !.total_views = SeqSum(Column(listings, "views_count"))]
        c2 == IF prices # <<>>
              THEN [c1 EXCEPT !.min_price = SeqMin(prices),
                              !.max_price = SeqMax(prices),
                              !.avg_price = Quotient(SeqSum(prices), Len(prices)),
                              !.median_price = MedianPrice(prices)]
              ELSE c1
    IN  IF kms # <<>>
        THEN [c2 EXCEPT !.average_kilometers = Quotient(SeqSum(kms), Len(kms))]
        ELSE c2

\* the listings linked to canonical_id, whatever their status
LinkedListings(canonical_id, vs) ==
    SelectSeq(vs, LAMBDA l : l.canonical_vehicle_id = canonical_id)

\* the active listings linked to canonical_id
ActiveListings(canonical_id, vs) ==
    SelectSeq(vs, LAMBDA l : l.canonical_vehicle_id = canonical_id /\ l.status = StatusActive)

\* an aggregation that also writes when no active listing is linked
UpdateStatsOfEmptyGroupToo(canonical_id, vs, cs) ==
    [i \in DOMAIN cs |->
        IF cs[i].id = ObjectId(canonical_id)
        THEN WithStats(cs[i], ActiveListings(canonical_id, vs))
        ELSE cs[i]]

\* the canonical collection after update_canonical_vehicle_stats(canonical_id)
UpdateCanonicalVehicleStats(canonical_id, vs, cs) ==
    LET listings == ActiveListings(canonical_id, vs)
    IN  IF listings = <<>> THEN cs
        ELSE [i \in DOMAIN cs |->
                IF cs[i].id = ObjectId(canonical_id) THEN WithStats(cs[i], listings) ELSE cs[i]]

(***************************************************************************)
(* Bounds and the scraped values the listings are drawn from               *)
(***************************************************************************)
MaxVehicles == 3
MaxCanonicals == 2

Attrs(b, m, y, ed, en) == [brand |-> b, model |-> m, year |-> y, edition |-> ed, engine |-> en]

\* the vehicle configurations of the registry specifications
ConfigA == Attrs(sHonda, sCivic, s2020, sLX, s15LTurbo)
ConfigA2 == Attrs(sHONDA, sCIVIC, s2020, sLX, s15Turbo)
ConfigB == Attrs(sHonda, sCivic, s2019, sLX, None)
RegistryConfigs == {ConfigA, ConfigA2, ConfigB}

\* what the source site shows for listing mlid over time: an odd listing is
\* posted as ConfigA and may be edited to ConfigB; an even one stays ConfigA2
ConfigsFor(mlid) == IF mlid % 2 = 1 THEN {ConfigA, ConfigB} ELSE {ConfigA2}

\* price_numeric and kilometers of a scrape (0: no price)
MarketNone == [price_numeric |-> 0,  kilometers |-> None]
Market85 == [price_numeric |-> 85, kilometers |-> sKm45]
Market87 == [price_numeric |-> 87, kilometers |-> None]
Markets == {MarketNone, Market85, Market87}

\* the prices listing mlid is seen with
MarketsFor(mlid) == IF mlid % 2 = 1 THEN {Market85, Market87} ELSE {MarketNone, Market85}

\* a VehicleCreate
VehicleData(mlid, a, mk) ==
    [mercadolibre_id |-> mlid, brand |-> a.brand, model |-> a.model, year |-> a.year,
     edition |-> a.edition, engine |-> a.engine,
     price_numeric |-> mk.price_numeric, kilometers |-> mk.kilometers]

(***************************************************************************)
(* State                                                                   *)
(***************************************************************************)
VARIABLES
    canonicals,   \* db.canonical_vehicles, in insertion order
    vehicles,     \* db.vehicles, in insertion order
    last,         \* what the call that has just returned gave its caller
    workers,      \* the find_or_create_canonical_vehicle coroutines in flight
    probe         \* a caller of the matcher on a given collection

vars == <<canonicals, vehicles, last, workers, probe>>

\* op: "resolve" (find_or_create_canonical_vehicle, alone or for a new listing),
\* "merge", "refresh" (the statistics route), or "none" for a re-scrape and
\* for the initial state;
\* on: the canonical ids the call was given (source and target of a merge,
\* the group of a refresh);
\* ret: the canonical id a resolve returned (NoId: None);
\* ok: the boolean a merge returned; raised: an exception reached the caller
NoCall == [op |-> "none", on |-> <<>>, ret |-> NoId, ok |-> FALSE, raised |-> FALSE]

\* no coroutine in flight
NoWorkers == <<>>

\* no caller of the matcher
NoProbe == [phase |-> "off", v |-> Attrs(None, None, None, None, None),
            found |-> NoId, rets |-> <<>>]

Init ==
    /\ canonicals = <<>>
    /\ vehicles = <<>>
    /\ last = NoCall
    /\ workers = NoWorkers
    /\ probe = NoProbe

CanonicalIds(cs) == {Str(cs[i].id) : i \in DOMAIN cs}
CanonicalById(cs, cid) == cs[CHOOSE i \in DOMAIN cs : cs[i].id = ObjectId(cid)]

(***************************************************************************)
(* find_or_create_canonical_vehicle                                        *)
(* fault names the storage operation that raises: "none", "query" (the     *)
(* candidate query), "persist" (insert_one), "readback" (the find_one      *)
(* after the insert)                                                       *)
(***************************************************************************)
\* [ret, cs]: the id returned (NoId for None) and the collection afterwards
\* the rest of the call once _find_matching_canonical has answered canonical_id
MatchedOrCreated(canonical_id, v, cs, fault) ==
    LET n == Len(cs) + 1
    IN  IF canonical_id # NoId THEN [ret |-> canonical_id, cs |-> cs]
        ELSE IF fault = "persist" THEN [ret |-> NoId, cs |-> cs]
        ELSE IF fault = "readback" THEN [ret |-> NoId, cs |-> Append(cs, NewCanonical(v, n))]
        ELSE [ret |-> n, cs |-> Append(cs, NewCanonical(v, n))]

FindOrCreateCanonicalVehicle(v, cs, fault) ==
    MatchedOrCreated(FindMatchingCanonical(v, cs, fault = "query"), v, cs, fault)

(***************************************************************************)
(* create_or_update_vehicle                                                *)
(***************************************************************************)
\* the listing with this mercadolibre_id, 0 when there is none
ExistingVehicle(vs, mlid) ==
    IF \E i \in DOMAIN vs : vs[i].mercadolibre_id = mlid
    THEN CHOOSE i \in DOMAIN vs : vs[i].mercadolibre_id = mlid
    ELSE 0

\* a re-scrape that also drops the listing's canonical_vehicle_id
RescrapedUnlinked(l, vd) ==
    [l EXCEPT !.brand = vd.brand, !.model = vd.model, !.year = vd.year,
              !.edition = vd.edition, !.engine = vd.engine,
              !.price_numeric = vd.price_numeric, !.kilometers = vd.kilometers,
              !.canonical_vehicle_id = NoId]

\* the $set of a re-scrape: the scraped fields; status and canonical_vehicle_id stay
Rescraped(l, vd) ==
    [l EXCEPT !.brand = vd.brand, !.model = vd.model, !.year = vd.year,
              !.edition = vd.edition, !.engine = vd.engine,
              !.price_numeric = vd.price_numeric, !.kilometers = vd.kilometers]

UpdateExisting(vd, i) ==
    LET vs1 == [vehicles EXCEPT ![i] = Rescraped(vehicles[i], vd)]
        cid == vehicles[i].canonical_vehicle_id
    IN  /\ vehicles' = vs1
        /\ canonicals' = IF cid # NoId THEN UpdateCanonicalVehicleStats(cid, vs1, canonicals)
                         ELSE canonicals
        /\ last' = NoCall
        /\ UNCHANGED <<workers, probe>>

\* the new-listing branch, r being what find_or_create_canonical_vehicle did
InsertVehicle(vd, fault, r) ==
    LET vs1 == Append(vehicles, NewVehicle(vd, Len(vehicles) + 1, r.ret))
    IN  /\ Len(vehicles) < MaxVehicles
        /\ Len(r.cs) <= MaxCanonicals
        /\ IF fault = "vehicle_insert"
           THEN \* insert_one raises: the exception reaches the caller
                /\ vehicles' = vehicles
                /\ canonicals' = r.cs
                /\ last' = [NoCall EXCEPT !.op = "resolve", !.raised = TRUE]
           ELSE /\ vehicles' = vs1
                /\ canonicals' = IF r.ret # NoId
                                 THEN UpdateCanonicalVehicleStats(r.ret, vs1, r.cs)
                                 ELSE r.cs
                /\ last' = [NoCall EXCEPT !.op = "resolve", !.ret = r.ret]
        /\ UNCHANGED <<workers, probe>>

CreateNew(vd, fault) ==
    InsertVehicle(vd, fault, FindOrCreateCanonicalVehicle(vd, canonicals, fault))

\* mercadolibre ids are opaque: a new listing takes the next unused one
CreateOrUpdateVehicle(vd, fault) ==
    LET i == ExistingVehicle(vehicles, vd.mercadolibre_id)
    IN  IF i # 0
        THEN fault = "none" /\ UpdateExisting(vd, i)
        ELSE vd.mercadolibre_id = Len(vehicles) + 1 /\ CreateNew(vd, fault)

(***************************************************************************)
(* merge_canonical_vehicles                                                *)
(***************************************************************************)
\* update_many({"canonical_vehicle_id": source_id}, {"$set": {... target_id}})
Repoint(vs, source_id, target_id) ==
    [i \in DOMAIN vs |->
        IF vs[i].canonical_vehicle_id = source_id
        THEN [vs[i] EXCEPT !.canonical_vehicle_id = target_id]
        ELSE vs[i]]

\* matched_count: the documents the filter of the update selected
MatchedCount(vs, source_id, target_id) ==
    Cardinality({i \in DOMAIN vs : vs[i].canonical_vehicle_id = source_id})

\* modified_count: the documents the update changed
ModifiedCount(vs, source_id, target_id) ==
    Cardinality({i \in DOMAIN vs :
                    vs[i].canonical_vehicle_id = source_id /\ source_id # target_id})

\* update_one({"_id": ObjectId(source_id)}, {"$set": {"status": MERGED}})
MarkMerged(cs, source_id) ==
    [i \in DOMAIN cs |->
        IF cs[i].id = ObjectId(source_id) THEN [cs[i] EXCEPT !.status = StatusMerged] ELSE cs[i]]

MergeCanonicalVehicles(source_id, target_id) ==
    LET vs1 == Repoint(vehicles, source_id, target_id)
        cs1 == MarkMerged(canonicals, source_id)
    IN  /\ vehicles' = vs1
        /\ canonicals' = UpdateCanonicalVehicleStats(target_id, vs1, cs1)
        /\ last' = [NoCall EXCEPT !.op = "merge", !.on = <<source_id, target_id>>,
                                  !.ok = ModifiedCount(vehicles, source_id, target_id) > 0]
        /\ UNCHANGED <<workers, probe>>

(***************************************************************************)
(* POST /canonical-vehicles/{id}/update-stats                              *)
(***************************************************************************)
RefreshStats(canonical_id) ==
    /\ canonicals' = UpdateCanonicalVehicleStats(canonical_id, vehicles, canonicals)
    /\ vehicles' = vehicles
    /\ last' = [NoCall EXCEPT !.op = "refresh", !.on = <<canonical_id>>]
    /\ UNCHANGED <<workers, probe>>

(***************************************************************************)
(* The registry in sequential use, no storage fault                        *)
(***************************************************************************)
RegistryInputs ==
    UNION {{VehicleData(m, a, mk) : a \in ConfigsFor(m), mk \in MarketsFor(m)} : m \in 1..MaxVehicles}

\* the merge route answers 404 unless both groups exist
Next ==
    \/ \E vd \in RegistryInputs : CreateOrUpdateVehicle(vd, "none")
    \/ \E s \in CanonicalIds(canonicals), t \in CanonicalIds(canonicals) :
          MergeCanonicalVehicles(s, t)
    \/ \E c \in CanonicalIds(canonicals) : RefreshStats(c)

Spec == Init /\ [][Next]_vars

(***************************************************************************)
(* Properties of the registry                                              *)
(***************************************************************************)

\* C1: once a merge has marked a group merged, no later resolution returns
\* that group's id: the id a resolution has just returned is never the id of
\* a merged group.
C1_MergedNeverReturned ==
    (last.op = "resolve" /\ last.ret # NoId)
        => CanonicalById(canonicals, last.ret).status # StatusMerged

\* C2: in every reachable state, a listing that carries a canonical-group
\* reference refers to a group whose status is not merged.
C2_ReferencesNotMerged ==
    \A i \in DOMAIN vehicles :
        vehicles[i].canonical_vehicle_id # NoId
            => CanonicalById(canonicals, vehicles[i].canonical_vehicle_id).status # StatusMerged

\* what C3 promises of the step merge(s, t)
MergePostcondition(s, t) ==
    /\ \A i \in DOMAIN vehicles :
          vehicles[i].canonical_vehicle_id = s => vehicles'[i].canonical_vehicle_id = t
    /\ \A i \in DOMAIN vehicles' : vehicles'[i].canonical_vehicle_id # s
    /\ CanonicalById(canonicals', s).status = StatusMerged

\* C3 as stated: when merge(source, target) returns, every listing that
\* referenced source references target, no listing references source, and
\* source is merged, for every pair of existing groups.
C3_MergePostcondition ==
    [][\A s \in CanonicalIds(canonicals), t \in CanonicalIds(canonicals) :
          MergeCanonicalVehicles(s, t) => MergePostcondition(s, t)]_vars

\* the postcondition does hold of every merge of two different groups
MergePostconditionDistinct ==
    [][\A s \in CanonicalIds(canonicals), t \in CanonicalIds(canonicals) :
          (s # t /\ MergeCanonicalVehicles(s, t)) => MergePostcondition(s, t)]_vars

(***************************************************************************)
(* The registry when storage operations may fail                           *)
(***************************************************************************)
\* the storage operation of create_or_update_vehicle that raises, if any
StorageFaults == {"none", "query", "persist", "readback", "vehicle_insert"}

NextFault ==
    \E vd \in RegistryInputs, fault \in StorageFaults : CreateOrUpdateVehicle(vd, fault)

SpecFault == Init /\ [][NextFault]_vars

\* C4: the resolution never fails silently when a storage operation fails,
\* so create_or_update_vehicle never persists a listing whose canonical-group
\* reference is null.
C4_NoNullReference ==
    \A i \in DOMAIN vehicles : vehicles[i].canonical_vehicle_id # NoId

(***************************************************************************)
(* Concurrent find_or_create_canonical_vehicle calls on one event loop.    *)
(* A coroutine runs without interruption between two awaits; the awaits    *)
(* are the narrow query, the broad query and the insert.                   *)
(***************************************************************************)
MaxWorkers == 2

Workers == 1..MaxWorkers

Idle == [pc |-> "idle", v |-> Attrs(None, None, None, None, None), ret |-> NoId]

InitConc ==
    /\ canonicals = <<>>
    /\ vehicles = <<>>
    /\ last = NoCall
    /\ workers = [p \in Workers |-> Idle]
    /\ probe = NoProbe

\* find_or_create_canonical_vehicle(v) is called
WorkerCall(p, v) ==
    /\ workers[p].pc = "idle"
    /\ workers' = [workers EXCEPT ![p] = [pc |-> "narrow", v |-> v, ret |-> NoId]]
    /\ UNCHANGED <<canonicals, vehicles, last, probe>>

\* the narrow query answers; the exact and the fuzzy loop run on its result
\* where the coroutine w goes after a phase answered r; next: after nothing found
AfterPhase(w, r, next) ==
    IF r = Raised THEN [w EXCEPT !.pc = "create"]
    ELSE IF r # NoId THEN [w EXCEPT !.pc = "done", !.ret = r]
    ELSE [w EXCEPT !.pc = next]

WorkerNarrow(p) ==
    /\ workers[p].pc = "narrow"
    /\ workers' = [workers EXCEPT ![p] =
                      AfterPhase(workers[p], NarrowPhase(workers[p].v, canonicals), "broad")]
    /\ UNCHANGED <<canonicals, vehicles, last, probe>>

\* the broad query answers; the fuzzy loop runs on its result
WorkerBroad(p) ==
    /\ workers[p].pc = "broad"
    /\ workers' = [workers EXCEPT ![p] =
                      AfterPhase(workers[p], BroadPhase(workers[p].v, canonicals), "create")]
    /\ UNCHANGED <<canonicals, vehicles, last, probe>>

\* no match: create_canonical_vehicle inserts the new group
WorkerCreate(p) ==
    LET w == workers[p]
        n == Len(canonicals) + 1
    IN  /\ w.pc = "create"
        /\ canonicals' = Append(canonicals, NewCanonical(w.v, n))
        /\ workers' = [workers EXCEPT ![p] = [w EXCEPT !.pc = "done", !.ret = n]]
        /\ UNCHANGED <<vehicles, last, probe>>

NextConc ==
    \/ \E p \in Workers, v \in RegistryConfigs : WorkerCall(p, v)
    \/ \E p \in Workers : WorkerNarrow(p)
    \/ \E p \in Workers : WorkerBroad(p)
    \/ \E p \in Workers : WorkerCreate(p)

SpecConc == InitConc /\ [][NextConc]_vars

\* group c, taken as a listing, is accepted by the matching policy for group d
PolicyAccepts(c, d) ==
    \/ IsExactMatch(c, d) = "true"
    \/ /\ ~CalculateSimilarityRaises(c, d)
       /\ FracAtLeastPercent(CalculateSimilarity(c, d), NarrowThreshold)

\* C5: no two distinct active groups have equal brand, model and year, all
\* populated, while their edition and engine satisfy the matching policy
\* against each other, in every interleaving of concurrent resolutions.
C5_NoDuplicateGroups ==
    \A i \in DOMAIN canonicals, j \in DOMAIN canonicals :
        ~ /\ i < j
          /\ canonicals[i].status = StatusActive /\ canonicals[j].status = StatusActive
          /\ Truthy(canonicals[i].brand) /\ Truthy(canonicals[i].model) /\ Truthy(canonicals[i].year)
          /\ canonicals[i].brand = canonicals[j].brand
          /\ canonicals[i].model = canonicals[j].model
          /\ canonicals[i].year = canonicals[j].year
          /\ PolicyAccepts(canonicals[i], canonicals[j])
          /\ PolicyAccepts(canonicals[j], canonicals[i])

(***************************************************************************)
(* The matcher on a given collection: a caller asks _find_matching_        *)
(* canonical once, then find_or_create_canonical_vehicle for the same      *)
(* attributes up to MaxResolves times, nothing else writing in between     *)
(***************************************************************************)
MaxResolves == 2

\* the groups a collection is drawn from
GroupEX == Attrs(sHonda, sCivic, s2020, sEX, s15Turbo)
GroupEXLS == Attrs(sHonda, sCivic, s2020, sEXLS, s15Turbo)
GroupEXL == Attrs(sHonda, sCivic, s2020, sEXL, None)
GroupDash == Attrs(sHonda, sCivic, s2020, sLX, sDash)
GroupHondas == Attrs(sHondas, sCivic, s2020, None, None)
GroupNoYear == Attrs(sHonda, sCivic, None, None, None)
MatchGroups == {GroupEX, GroupEXLS, GroupEXL, GroupDash, GroupHondas, GroupNoYear}

\* the listings resolved against it
ListingEXL == Attrs(sHonda, sCivic, s2020, sEXL, s15LTurbo)
ListingDash == Attrs(sHonda, sCivic, s2020, None, sDash)
ListingPlain == Attrs(sHonda, sCivic, s2020, None, None)
ListingBare == Attrs(None, None, None, sLX, None)
MatchListings == {ListingEXL, ListingDash, ListingPlain, ListingBare}

\* the collection holding these groups, all active, inserted in this order
StoreOf(groups) == [i \in DOMAIN groups |-> NewCanonical(groups[i], i)]

Stores == {StoreOf(s) : s \in UNION {[1..n -> MatchGroups] : n \in 0..MaxCanonicals}}

InitMatch ==
    /\ canonicals \in Stores
    /\ vehicles = <<>>
    /\ last = NoCall
    /\ workers = NoWorkers
    /\ probe \in {[phase |-> "start", v |-> v, found |-> NoId, rets |-> <<>>] : v \in MatchListings}

\* _find_matching_canonical(v)
ProbeFindMatch ==
    /\ probe.phase = "start"
    /\ probe' = [probe EXCEPT !.phase = "found",
                              !.found = FindMatchingCanonical(probe.v, canonicals, FALSE)]
    /\ UNCHANGED <<canonicals, vehicles, last, workers>>

\* find_or_create_canonical_vehicle(v) returns r; rets records the id it
\* returned and the number of groups after it
Resolved(r) ==
    /\ canonicals' = r.cs
    /\ probe' = [probe EXCEPT !.rets = Append(@, [ret |-> r.ret, groups |-> Len(r.cs)])]
    /\ UNCHANGED <<vehicles, last, workers>>

ProbeResolve ==
    /\ probe.phase = "found"
    /\ Len(probe.rets) < MaxResolves
    /\ Resolved(FindOrCreateCanonicalVehicle(probe.v, canonicals, "none"))

NextMatch == ProbeFindMatch \/ ProbeResolve

SpecMatch == InitMatch /\ [][NextMatch]_vars

\* C6: if a resolution of L returned g, a second resolution with the same
\* attribute values, nothing written in between, returns g and creates no group.
C6_Repeatable ==
    \A k \in 2..Len(probe.rets) :
        /\ probe.rets[k].ret = probe.rets[1].ret
        /\ probe.rets[k].groups = probe.rets[1].groups

\* the candidate satisfies the exact-match predicate
SatisfiesExact(v, c) == IsExactMatch(v, c) = "true"

\* the candidate's score reaches threshold (in hundredths)
Reaches(v, c, threshold) == FracAtLeastPercent(CalculateSimilarity(v, c), threshold)

\* the id of the highest-scoring candidate among those reaching threshold,
\* the earliest of them on a tie; NoId when none reaches it
Highest(v, cands, threshold) ==
    IF \A i \in DOMAIN cands : ~Reaches(v, cands[i], threshold) THEN NoId
    ELSE LET best == CHOOSE i \in DOMAIN cands :
                        /\ Reaches(v, cands[i], threshold)
                        /\ \A j \in DOMAIN cands :
                              /\ ~FracLess(CalculateSimilarity(v, cands[i]),
                                           CalculateSimilarity(v, cands[j]))
                              /\ j < i => FracLess(CalculateSimilarity(v, cands[j]),
                                                   CalculateSimilarity(v, cands[i]))
         IN  Str(cands[best].id)

\* find_match has answered and the collection is still the one it searched
Answered == probe.phase = "found" /\ probe.rets = <<>>

\* the narrow phase yields nothing for v
NarrowNothing(v, store) ==
    \/ ~HasNarrowQuery(v)
    \/ \A i \in DOMAIN NarrowCandidates(v, store) :
          /\ ~SatisfiesExact(v, NarrowCandidates(v, store)[i])
          /\ ~Reaches(v, NarrowCandidates(v, store)[i], NarrowThreshold)

\* C7: whenever some narrow candidate satisfies the exact-match predicate,
\* find_match returns the first such candidate in candidate order.
C7_ExactShortCircuits ==
    LET cands == NarrowCandidates(probe.v, canonicals)
        hits  == {i \in DOMAIN cands : SatisfiesExact(probe.v, cands[i])}
    IN  (Answered /\ HasNarrowQuery(probe.v) /\ hits # {})
            => probe.found = Str(cands[CHOOSE i \in hits : \A j \in hits : i <= j].id)

\* C8: when no narrow candidate satisfies the exact predicate and at least
\* one scores 0.90 or more, find_match returns the highest-scoring narrow
\* candidate, ties broken by candidate order.
C8_NarrowHighest ==
    LET cands == NarrowCandidates(probe.v, canonicals)
    IN  ( /\ Answered /\ HasNarrowQuery(probe.v)
          /\ \A i \in DOMAIN cands : ~SatisfiesExact(probe.v, cands[i])
          /\ \E i \in DOMAIN cands : Reaches(probe.v, cands[i], NarrowThreshold) )
            => probe.found = Highest(probe.v, cands, NarrowThreshold)

\* C9: when the narrow phase returned nothing, find_match returns the
\* highest-scoring broad candidate if the listing has brand and model and
\* that score is 0.95 or more, and none otherwise.
C9_BroadHighest ==
    (Answered /\ NarrowNothing(probe.v, canonicals))
        => probe.found =
              IF Truthy(probe.v.brand) /\ Truthy(probe.v.model)
              THEN Highest(probe.v, BroadCandidates(probe.v, canonicals), BroadThreshold)
              ELSE NoId

(***************************************************************************)
(* Ingestion: create_or_update_vehicle for listings not seen before,       *)
(* starting from an empty registry                                         *)
(***************************************************************************)
ConfigA3 == Attrs(sHonda, sCivic, s2020, sLx, s15LTurbo)
ConfigC == Attrs(sHonda, sCivic, s2020, sLX, s20)
ConfigY == Attrs(sHonda, sCivic, s2020sp, sLX, s15LTurbo)
ConfigX == Attrs(sHonda, sCX5, s2020, sLX, s15LTurbo)
ConfigX2 == Attrs(sHonda, sCX5sp, s2020, sLX, s15Turbo)
IngestConfigs == {ConfigA, ConfigA2, ConfigA3, ConfigB, ConfigC, ConfigX, ConfigX2, ConfigY}

IngestInputs == {VehicleData(m, a, Market85) : m \in 1..MaxVehicles, a \in IngestConfigs}

NextIngest ==
    \E vd \in IngestInputs :
        /\ ExistingVehicle(vehicles, vd.mercadolibre_id) = 0
        /\ CreateOrUpdateVehicle(vd, "none")

SpecIngest == Init /\ [][NextIngest]_vars

\* brand, model, year and edition are present on both and equal after
\* normalization, and l's engine is engines_similar to f's
AlikeNormalized(l, f) ==
    /\ Truthy(l.brand) /\ Truthy(l.model) /\ Truthy(l.year) /\ Truthy(l.edition)
    /\ Truthy(f.brand) /\ Truthy(f.model) /\ Truthy(f.year) /\ Truthy(f.edition)
    /\ Norm(l.brand) = Norm(f.brand)
    /\ Norm(l.model) = Norm(f.model)
    /\ Norm(l.year) = Norm(f.year)
    /\ Norm(l.edition) = Norm(f.edition)
    /\ Truthy(l.engine) /\ Truthy(f.engine)
    /\ ~EnginesRaise(l.engine, f.engine) /\ EnginesSimilar(l.engine, f.engine)

\* brand and model are equal up to letter case, the year is identical, the
\* edition is equal after normalization (all four present on both), and l's
\* engine is engines_similar to f's
AlikeIgnoringCase(l, f) ==
    /\ Truthy(l.brand) /\ Truthy(l.model) /\ Truthy(l.year) /\ Truthy(l.edition)
    /\ Truthy(f.brand) /\ Truthy(f.model) /\ Truthy(f.year) /\ Truthy(f.edition)
    /\ Lower(l.brand) = Lower(f.brand)
    /\ Lower(l.model) = Lower(f.model)
    /\ l.year = f.year
    /\ Norm(l.edition) = Norm(f.edition)
    /\ Truthy(l.engine) /\ Truthy(f.engine)
    /\ ~EnginesRaise(l.engine, f.engine) /\ EnginesSimilar(l.engine, f.engine)

\* every listing is linked to the group of the first one
AllLinkedToOneGroup ==
    \A i \in DOMAIN vehicles :
        /\ vehicles[i].canonical_vehicle_id # NoId
        /\ vehicles[i].canonical_vehicle_id = vehicles[1].canonical_vehicle_id

\* C10 as stated: from an empty registry, listings whose brand, model, year
\* and edition are present and equal after normalization and whose engines
\* are engines_similar to the first listing's are all linked to one group.
C10_SameGroup ==
    (\A i \in DOMAIN vehicles : AlikeNormalized(vehicles[i], vehicles[1]))
        => AllLinkedToOneGroup

\* C10 amended: from an empty registry, listings whose brand and model are
\* equal up to letter case, whose year is identical, whose edition is equal
\* after normalization (all four present) and whose engines are
\* engines_similar to the first listing's are all linked to one group.
C10_SameGroupIgnoringCase ==
    (\A i \in DOMAIN vehicles : AlikeIgnoringCase(vehicles[i], vehicles[1]))
        => AllLinkedToOneGroup

\* three such listings, differing in the case of the brand, in the case of
\* the edition and in the engine text, have been ingested
C10_ThreeAlikeIngested ==
    /\ Len(vehicles) >= 3
    /\ \A i \in DOMAIN vehicles : AlikeIgnoringCase(vehicles[i], vehicles[1])
    /\ \E i \in DOMAIN vehicles : vehicles[i].brand # vehicles[1].brand
    /\ \E i \in DOMAIN vehicles : vehicles[i].edition # vehicles[1].edition
    /\ \E i \in DOMAIN vehicles : vehicles[i].engine # vehicles[1].engine


(***************************************************************************)
(* Years: listings that carry a year or none, scraped and re-scraped,      *)
(* starting from an empty registry                                         *)
(***************************************************************************)
ConfigNoYear == Attrs(sHonda, sCivic, None, sLX, None)
ConfigA2020 == Attrs(sHonda, sCivic, s2020, sLX, None)
YearConfigs == {ConfigNoYear, ConfigA2020, ConfigB}

YearInputs == {VehicleData(m, a, Market85) : m \in 1..MaxVehicles, a \in YearConfigs}

NextYears == \E vd \in YearInputs : CreateOrUpdateVehicle(vd, "none")

SpecYears == Init /\ [][NextYears]_vars

\* both carry a year and the two years differ
YearsDiffer(a, b) == Truthy(a.year) /\ Truthy(b.year) /\ a.year # b.year

IdString(n) == <<"str", n>>

\* update_data.dict(exclude_unset=True) applied by $set: the fields the
\* update carries replace the listing's, the others stay
SetFields(l, update_data) ==
    [f \in DOMAIN l |-> IF f \in DOMAIN update_data THEN update_data[f] ELSE l[f]]

\* update_one({"_id": vehicle_id}, {"$set": update_dict}); on a match the
\* document read back has an ObjectId for _id, which Vehicle(**vehicle) refuses
UpdateVehicle(vehicle_id, update_data) ==
    LET matched == {i \in DOMAIN vehicles : vehicles[i].id = vehicle_id}
    IN  /\ vehicles' = [i \in DOMAIN vehicles |->
                          IF i \in matched THEN SetFields(vehicles[i], update_data)
                          ELSE vehicles[i]]
        /\ canonicals' = canonicals
        /\ last' = [NoCall EXCEPT !.op = "update_vehicle", !.raised = (matched # {})]
        /\ UNCHANGED <<workers, probe>>

\* the VehicleUpdate bodies: a new price, the listing sold
PriceUpdate == [price_numeric |-> 870]
SoldUpdate == [status |-> StatusSold]
VehicleUpdates == {PriceUpdate, SoldUpdate}

\* the listings of the specifications that call update_vehicle
MaxUpdated == 2

\* the ids update_vehicle is called with: the _id of a document, or its string
VehicleIdInputs ==
    {ObjectId(n) : n \in 1..MaxUpdated} \cup {IdString(n) : n \in 1..MaxUpdated}

(***************************************************************************)
(* Statistics: update_canonical_vehicle_stats over collections of listing  *)
(* documents of every kind the Vehicle model admits (viewed, sold,         *)
(* unpriced), two groups on file                                           *)
(***************************************************************************)
MaxListings == 3

sKm30 == <<"3", "0", ",", "0", "0", "0">>

\* a Vehicle document linked to group g
ListingDoc(g, st, price, km, views) ==
    [NewVehicle(VehicleData(0, ConfigA, [price_numeric |-> price, kilometers |-> km]), 0, g)
        EXCEPT !.status = st, !.views_count = views]

DocPriced850 == ListingDoc(1, StatusActive, 850, sKm45, 3)
DocPriced870 == ListingDoc(1, StatusActive, 870, None, 0)
DocPriced845 == ListingDoc(1, StatusActive, 845, sKm30, 5)
DocUnpriced == ListingDoc(1, StatusActive, NoPrice, None, 2)
DocSold == ListingDoc(1, StatusSold, 900, sKm45, 4)
DocOther == ListingDoc(2, StatusActive, 845, None, 1)
ListingDocs == {DocPriced850, DocPriced870, DocPriced845, DocUnpriced, DocSold, DocOther}

\* the n-th document of a collection has _id and mercadolibre_id n
Numbered(docs) ==
    [n \in DOMAIN docs |-> [docs[n] EXCEPT !.id = ObjectId(n), !.mercadolibre_id = n]]

ListingCollections ==
    UNION {{Numbered(docs) : docs \in [1..n -> ListingDocs]} : n \in 1..MaxListings}

InitStats ==
    /\ canonicals = <<NewCanonical(ConfigA, 1), NewCanonical(ConfigB, 2)>>
    /\ vehicles \in ListingCollections
    /\ last = NoCall
    /\ workers = NoWorkers
    /\ probe = NoProbe

NextStats ==
    \/ \E c \in CanonicalIds(canonicals) : RefreshStats(c)
    \/ \E n \in 1..MaxListings : UpdateVehicle(ObjectId(n), SoldUpdate)

SpecStats == InitStats /\ [][NextStats]_vars

\* the active listings linked to group g, and those of them that have a price
LinkedActive(g) ==
    {i \in DOMAIN vehicles :
        vehicles[i].canonical_vehicle_id = g /\ vehicles[i].status = StatusActive}
LinkedPriced(g) == {i \in LinkedActive(g) : vehicles[i].price_numeric # NoPrice}

RECURSIVE SumOver(_, _)
\* the sum of a field over the listings numbered in s
SumOver(s, field) ==
    IF s = {} THEN 0
    ELSE LET i == CHOOSE k \in s : TRUE
         IN  vehicles[i][field] + SumOver(s \ {i}, field)

\* the counts, views and price range of c are those of the active listings of g
ShowsAggregate(c, g) ==
    /\ c.total_listings = Cardinality(LinkedActive(g))
    /\ c.active_listings = Cardinality(LinkedActive(g))
    /\ c.total_views = SumOver(LinkedActive(g), "views_count")
    /\ \E i \in LinkedPriced(g) : vehicles[i].price_numeric = c.min_price
    /\ \A i \in LinkedPriced(g) : c.min_price <= vehicles[i].price_numeric
    /\ \E i \in LinkedPriced(g) : vehicles[i].price_numeric = c.max_price
    /\ \A i \in LinkedPriced(g) : c.max_price >= vehicles[i].price_numeric
    /\ c.avg_price[1] * Cardinality(LinkedPriced(g))
          = c.avg_price[2] * SumOver(LinkedPriced(g), "price_numeric")

\* C12: after refresh(g) on a group with at least one active linked listing
\* that has a price, total_listings = active_listings = the number of active
\* listings linked to g, total_views is the sum of their view counts, and
\* min_price, max_price and avg_price are the minimum, maximum and mean of
\* their prices.
C12_RefreshAggregates ==
    (last.op = "refresh" /\ LinkedPriced(last.on[1]) # {})
        => ShowsAggregate(CanonicalById(canonicals, last.on[1]), last.on[1])

\* a group whose active priced listings are three, priced 850, 870 and 845,
\* has just been refreshed: min 845, max 870, avg 855, 3 listings, 8 views
C12_ThreePricesRefreshed ==
    /\ last.op = "refresh"
    /\ Cardinality(LinkedPriced(last.on[1])) = 3
    /\ {vehicles[i].price_numeric : i \in LinkedPriced(last.on[1])} = {850, 870, 845}
    /\ CanonicalById(canonicals, last.on[1]).min_price = 845
    /\ CanonicalById(canonicals, last.on[1]).max_price = 870
    /\ CanonicalById(canonicals, last.on[1]).avg_price = <<855, 1>>
    /\ CanonicalById(canonicals, last.on[1]).total_listings = 3
    /\ CanonicalById(canonicals, last.on[1]).total_views = 8

\* C13: refresh(g) on a group with no active linked listing is a no-op:
\* every derived statistic of g and every other group and listing is left
\* unchanged.
C13_RefreshWithoutActiveIsNoOp ==
    [][(last'.op = "refresh" /\ ActiveListings(last'.on[1], vehicles) = <<>>)
          => (canonicals' = canonicals /\ vehicles' = vehicles)]_vars

\* a group that was aggregated while it had listings, and whose listings
\* have all been sold since, has just been refreshed: the counts and prices
\* it shows are the last known ones
C13_RefreshedWithoutActive ==
    /\ last.op = "refresh"
    /\ LinkedActive(last.on[1]) = {}
    /\ CanonicalById(canonicals, last.on[1]).total_listings > 0
    /\ CanonicalById(canonicals, last.on[1]).min_price # NoPrice

\* C15: refresh is idempotent: refresh(g) called twice in succession, with
\* no change to any listing in between, leaves g with the same derived
\* statistics after the second call as after the first.
C15_RefreshIdempotent ==
    [][(last.op = "refresh" /\ last'.op = "refresh" /\ last'.on = last.on)
          => canonicals' = canonicals]_vars

\* a group with viewed, priced active listings and a parsed distance has
\* just been refreshed, and can be refreshed again
C15_RefreshedOnce ==
    /\ last.op = "refresh"
    /\ Cardinality(LinkedPriced(last.on[1])) >= 2
    /\ CanonicalById(canonicals, last.on[1]).total_views > 0
    /\ CanonicalById(canonicals, last.on[1]).median_price # NoPrice
    /\ CanonicalById(canonicals, last.on[1]).average_kilometers # NoFrac

(***************************************************************************)
(* The registry in sequential use with update_vehicle among the calls      *)
(***************************************************************************)
\* listings of two configurations
UpdateInputs == {VehicleData(m, a, Market85) : m \in 1..MaxUpdated, a \in {ConfigA, ConfigB}}

NextUpdates ==
    \/ \E vd \in UpdateInputs : CreateOrUpdateVehicle(vd, "none")
    \/ \E s \in CanonicalIds(canonicals), t \in CanonicalIds(canonicals) :
          MergeCanonicalVehicles(s, t)
    \/ \E c \in CanonicalIds(canonicals) : RefreshStats(c)
    \/ \E id \in VehicleIdInputs, u \in VehicleUpdates : UpdateVehicle(id, u)

SpecUpdates == Init /\ [][NextUpdates]_vars

\* c before any aggregation wrote its price statistics and average distance
Unaggregated(c) ==
    [c EXCEPT !.min_price = NoPrice, !.max_price = NoPrice, !.avg_price = NoFrac,
              !.median_price = NoPrice, !.average_kilometers = NoFrac]

\* the counts and views of c are those of the listings
CountsFrom(c, listings) ==
    /\ c.total_listings = Len(listings)
    /\ c.active_listings = Len(listings)
    /\ c.total_views = SeqSum(Column(listings, "views_count"))

\* C14: no state is reachable in which a group's listing counts and total
\* views come from its latest aggregation while its price statistics
\* (min/max/avg/median) or average kilometers still come from an earlier
\* aggregation over a different listing set: a group whose counts are those
\* of its active listings shows the price statistics and average distance of
\* these same listings, and none where they have no price or no distance.
C14_OverwrittenTogether ==
    \A i \in DOMAIN canonicals :
        (/\ ActiveListings(Str(canonicals[i].id), vehicles) # <<>>
         /\ CountsFrom(canonicals[i], ActiveListings(Str(canonicals[i].id), vehicles)))
            => canonicals[i] = WithStats(Unaggregated(canonicals[i]),
                                         ActiveListings(Str(canonicals[i].id), vehicles))

\* C16: in sequential execution, once an insert, an update or a merge has
\* returned, a group with at least one active priced listing shows the
\* counts and price statistics of its currently linked active listings.
C16_StatsFollowListings ==
    \A g \in CanonicalIds(canonicals) :
        LinkedPriced(g) # {} => ShowsAggregate(CanonicalById(canonicals, g), g)

\* a listing that referenced the source references the target after the step
Repointed(source_id, target_id) ==
    \E i \in DOMAIN vehicles :
        /\ vehicles[i].canonical_vehicle_id = source_id
        /\ vehicles'[i].canonical_vehicle_id = target_id
        /\ vehicles'[i].canonical_vehicle_id # vehicles[i].canonical_vehicle_id

MissingOrMerged(target_id) ==
    \/ target_id \notin CanonicalIds(canonicals)
    \/ CanonicalById(canonicals, target_id).status = StatusMerged

\* C18: merge(source, target) with a target that does not exist or whose
\* status is already merged is rejected: no listing is re-pointed to that
\* target and no group's status changes.
C18_BadTargetRejected ==
    [][(last'.op = "merge" /\ MissingOrMerged(last'.on[2]))
          => /\ ~Repointed(last'.on[1], last'.on[2])
             /\ \A i \in DOMAIN canonicals : canonicals'[i].status = canonicals[i].status]_vars

(***************************************************************************)
(* The score of pairs of attribute records, each scored as the listing     *)
(* against the other as the candidate                                      *)
(***************************************************************************)
ScoreRecords ==
    {Attrs(b, m, y, ed, en) : b \in {sHonda, sHONDA, None}, m \in {sCivic, None},
                              y \in {s2020, s2020sp, None}, ed \in {sEXLS, sSEL, None},
                              en \in {s15LTurbo, sDash, None}}

InitScore ==
    /\ canonicals = <<>>
    /\ vehicles = <<>>
    /\ last = NoCall
    /\ workers = NoWorkers
    /\ probe \in {[phase |-> "pair", v |-> a, c |-> b, rets |-> <<>>] : a, b \in ScoreRecords}

\* what _calculate_similarity(v, c) does: raised, or the value it returns
Scored(v, c) ==
    [raised |-> CalculateSimilarityRaises(v, c),
     value |-> IF CalculateSimilarityRaises(v, c) THEN <<0, 1>> ELSE CalculateSimilarity(v, c)]

\* _calculate_similarity(v, c)
ScoreForth ==
    /\ probe.phase = "pair"
    /\ probe' = [probe EXCEPT !.phase = "forth", !.rets = <<Scored(probe.v, probe.c)>>]
    /\ UNCHANGED <<canonicals, vehicles, last, workers>>

\* _calculate_similarity(c, v)
ScoreBack ==
    /\ probe.phase = "forth"
    /\ probe' = [probe EXCEPT !.phase = "both", !.rets = Append(@, Scored(probe.c, probe.v))]
    /\ UNCHANGED <<canonicals, vehicles, last, workers>>

NextScore == ScoreForth \/ ScoreBack

SpecScore == InitScore /\ [][NextScore]_vars

AttrFields == {"brand", "model", "year", "edition", "engine"}

\* each field is present on both sides or absent on both, at least one is
\* present, and the fields are identical after normalization
IdenticalNormalized(a, b) ==
    /\ \A f \in AttrFields : Truthy(a[f]) <=> Truthy(b[f])
    /\ \E f \in AttrFields : Truthy(a[f])
    /\ \A f \in AttrFields : Norm(a[f]) = Norm(b[f])

\* C19: for every listing and candidate whose brand, model, year, edition
\* and engine are identical after normalization (each field present on both
\* sides or absent on both, at least one present), score returns exactly 1.0.
C19_IdenticalScoreOne ==
    (probe.phase = "forth" /\ IdenticalNormalized(probe.v, probe.c))
        => probe.rets[1] = [raised |-> FALSE, value |-> <<1, 1>>]

\* C20: score is symmetric: scoring A as the listing against B as the
\* candidate gives the same value as scoring B as the listing against A.
C20_ScoreSymmetric ==
    probe.phase = "both" => probe.rets[1] = probe.rets[2]

\* the fields present on both sides
CommonFields(v, c) == {f \in AttrFields : Truthy(v[f]) /\ Truthy(c[f])}

\* the weight of a field, out of 100
FieldWeight(f) ==
    CASE f = "brand" -> BrandWeight
      [] f = "model" -> ModelWeight
      [] f = "year" -> YearWeight
      [] f = "edition" -> EditionWeight
      [] f = "engine" -> EngineWeight

\* the contribution of a field present on both sides, between 0 and 1
Contribution(f, v, c) ==
    CASE f \in {"brand", "model", "edition"} -> SeqRatio(Norm(v[f]), Norm(c[f]))
      [] f = "year" -> IF v.year = c.year THEN <<1, 1>> ELSE <<0, 1>>
      [] f = "engine" -> IF EnginesSimilar(v.engine, c.engine) THEN <<1, 1>> ELSE <<0, 1>>

RECURSIVE WeightSum(_)
WeightSum(fs) ==
    IF fs = {} THEN 0
    ELSE LET f == CHOOSE g \in fs : TRUE IN FieldWeight(f) + WeightSum(fs \ {f})

RECURSIVE ContributionSum(_, _, _)
\* the sum of weight x contribution over the fields fs
ContributionSum(fs, v, c) ==
    IF fs = {} THEN <<0, 1>>
    ELSE LET f == CHOOSE g \in fs : TRUE
         IN  FracAdd(FracScale(FieldWeight(f), Contribution(f, v, c)),
                     ContributionSum(fs \ {f}, v, c))

\* value is the weighted average of v and c over the fields fs
IsWeightedAverage(value, fs, v, c) ==
    /\ value[1] >= 0 /\ value[1] <= value[2]
    /\ IF fs = {} THEN value[1] = 0
       ELSE FracEq(FracScale(WeightSum(fs), value), ContributionSum(fs, v, c))

MaxLen == 3

NormalizeChars == {"H", "h", "5", "-", "_", " ", ".", DottedCapitalI}

NormalizeInputs == UNION {[1..n -> NormalizeChars] : n \in 0..MaxLen}

InitNormalize ==
    /\ canonicals = <<>>
    /\ vehicles = <<>>
    /\ last = NoCall
    /\ workers = NoWorkers
    /\ probe \in {[phase |-> "text", v |-> x, rets |-> <<>>] : x \in NormalizeInputs}

\* _normalize_string(x)
NormalizeOnce ==
    /\ probe.phase = "text"
    /\ probe' = [probe EXCEPT !.phase = "once", !.rets = <<NormalizeString(probe.v)>>]
    /\ UNCHANGED <<canonicals, vehicles, last, workers>>

\* _normalize_string(_normalize_string(x))
NormalizeTwice ==
    /\ probe.phase = "once"
    /\ probe' = [probe EXCEPT !.phase = "twice", !.rets = Append(@, NormalizeString(probe.rets[1]))]
    /\ UNCHANGED <<canonicals, vehicles, last, workers>>

\* x in capitals, x with spaces for its hyphens and underscores, x with
\* spaces around it and every space doubled
InCapitals(x) ==
    [i \in DOMAIN x |->
        IF x[i] \in Range(LowerChars)
        THEN UpperChars[CHOOSE k \in DOMAIN LowerChars : LowerChars[k] = x[i]]
        ELSE x[i]]
SpacesForHyphens(x) == [i \in DOMAIN x |-> IF x[i] \in {"-", "_"} THEN " " ELSE x[i]]
RECURSIVE DoubledSpaces(_)
DoubledSpaces(x) ==
    IF x = <<>> THEN <<>>
    ELSE (IF Head(x) = " " THEN <<" ", " ">> ELSE <<Head(x)>>) \o DoubledSpaces(Tail(x))
Padded(x) == <<" ">> \o DoubledSpaces(x) \o <<" ", " ">>

\* _normalize_string of the three respellings
NormalizeRespelled ==
    /\ probe.phase = "twice"
    /\ probe' = [probe EXCEPT !.phase = "respelled",
                              !.rets = @ \o <<NormalizeString(InCapitals(probe.v)),
                                              NormalizeString(SpacesForHyphens(probe.v)),
                                              NormalizeString(Padded(probe.v))>>]
    /\ UNCHANGED <<canonicals, vehicles, last, workers>>

NextNormalize == NormalizeOnce \/ NormalizeTwice \/ NormalizeRespelled

SpecNormalize == InitNormalize /\ [][NextNormalize]_vars

\* normalize(normalize(x)) = normalize(x)
NormalizeIdempotent == probe.phase = "twice" => probe.rets[2] = probe.rets[1]

\* inputs differing only in letter case, in extra whitespace or in hyphens
\* versus spaces normalize to the same string; None and "" normalize to ""
NormalizeInsensitive ==
    /\ probe.phase = "respelled"
          => \A k \in 3..5 : probe.rets[k] = probe.rets[1]
    /\ (probe.phase = "once" /\ probe.v = None) => probe.rets[1] = <<>>

\* C22: normalize is idempotent and insensitive to case, to surrounding or
\* repeated whitespace and to hyphen/underscore separators: for every input
\* x, normalize(normalize(x)) = normalize(x); inputs differing only in
\* letter case, extra whitespace or hyphens-versus-spaces normalize to the
\* same string; None and the empty string normalize to the empty string.
C22_NormalizeIdempotentInsensitive == NormalizeIdempotent /\ NormalizeInsensitive

(***************************************************************************)
(* _similar_engines on pairs of short engine texts                         *)
(***************************************************************************)
MaxEngineLen == 2

EngineChars == {"1", "2", ".", "L", "l", "-", " "}

EngineInputs == UNION {[1..n -> EngineChars] : n \in 0..MaxEngineLen}

InitEngines ==
    /\ canonicals = <<>>
    /\ vehicles = <<>>
    /\ last = NoCall
    /\ workers = NoWorkers
    /\ probe \in {[phase |-> "pair", v |-> a, c |-> b, rets |-> <<>>] :
                     a \in EngineInputs, b \in EngineInputs}

\* _similar_engines(engine1, engine2): the value returned, or the exception
EnginesCompared ==
    /\ probe.phase = "pair"
    /\ probe' = [probe EXCEPT
                   !.phase = "compared",
                   !.rets = <<[raised |-> SimilarEnginesRaises(probe.v, probe.c),
                               value  |-> IF SimilarEnginesRaises(probe.v, probe.c) THEN FALSE
                                          ELSE SimilarEngines(probe.v, probe.c)]>>]
    /\ UNCHANGED <<canonicals, vehicles, last, workers>>

NextEngines == EnginesCompared

SpecEngines == InitEngines /\ [][NextEngines]_vars

\* C23: engines_similar is a total boolean function: for every pair of inputs
\* (strings with no numeric token and no alphanumeric word included) it
\* returns true or false without raising, and it returns false whenever
\* either input is empty or missing.
C23_EnginesSimilarTotal ==
    probe.phase = "compared"
        => /\ ~probe.rets[1].raised
           /\ probe.rets[1].value \in BOOLEAN
           /\ (probe.v = None \/ probe.c = None) => ~probe.rets[1].value

(***************************************************************************)
(* Pagination of list (canonical vehicles) and search (listings): a page   *)
(* of page_size records out of total_count matching records                *)
(***************************************************************************)
MaxTotal == 6
MaxPage == 4
MaxPageSize == 3

\* a page count that drops the last, partly filled page
TotalPagesRoundedDown(total_count, page_size) == total_count \div page_size

\* total_pages = (total_count + page_size - 1) // page_size
TotalPages(total_count, page_size) == (total_count + page_size - 1) \div page_size

\* find(query).sort(...).skip(skip).limit(page_size) over the matching
\* records, numbered 1..total_count in sort order
PageOf(total_count, page, page_size) ==
    LET skip == (page - 1) * page_size
    IN  {k \in 1..total_count : k > skip /\ k <= skip + page_size}

\* the pagination fields of the response
PageInfo(total_count, page, page_size) ==
    [items        |-> PageOf(total_count, page, page_size),
     total_count  |-> total_count,
     page         |-> page,
     page_size    |-> page_size,
     total_pages  |-> TotalPages(total_count, page_size),
     has_next     |-> page < TotalPages(total_count, page_size),
     has_previous |-> page > 1]

InitPages ==
    /\ canonicals = <<>>
    /\ vehicles = <<>>
    /\ last = NoCall
    /\ workers = NoWorkers
    /\ probe \in {[phase |-> "request", total_count |-> t, page |-> p, page_size |-> s, rets |-> <<>>] :
                     t \in 0..MaxTotal, p \in 1..MaxPage, s \in 1..MaxPageSize}

\* get_canonical_vehicles_with_listings(page, page_size)
ListPage ==
    /\ probe.phase = "request"
    /\ probe' = [probe EXCEPT !.phase = "listed",
                              !.rets = <<PageInfo(probe.total_count, probe.page, probe.page_size)>>]
    /\ UNCHANGED <<canonicals, vehicles, last, workers>>

\* search_vehicles(filters, page, page_size)
SearchPage ==
    /\ probe.phase = "request"
    /\ probe' = [probe EXCEPT !.phase = "searched",
                              !.rets = <<PageInfo(probe.total_count, probe.page, probe.page_size)>>]
    /\ UNCHANGED <<canonicals, vehicles, last, workers>>

NextPages == ListPage \/ SearchPage

SpecPages == InitPages /\ [][NextPages]_vars

\* the least n with n * page_size >= total_count
CeilDiv(total_count, page_size) ==
    CHOOSE n \in 0..total_count : n * page_size >= total_count /\ \A m \in 0..(n - 1) : m * page_size < total_count

\* C24: for list / search with page >= 1 and page_size >= 1 over total_count
\* matching records, total_pages = ceil(total_count / page_size),
\* has_previous holds exactly when page > 1, and has_next holds exactly when
\* page * page_size < total_count, that is when some matching record lies
\* beyond the current page.
C24_Pagination ==
    probe.phase \in {"listed", "searched"}
        => LET r == probe.rets[1]
           IN  /\ r.total_pages = CeilDiv(probe.total_count, probe.page_size)
               /\ r.has_previous <=> probe.page > 1
               /\ r.has_next <=> probe.page * probe.page_size < probe.total_count
               /\ r.has_next <=> \E k \in 1..probe.total_count :
                                      k > (probe.page - 1) * probe.page_size /\ k \notin r.items

\* a middle page was listed and the last page is only partly filled
C24_MiddlePageListed ==
    /\ probe.phase = "listed"
    /\ probe.total_count = 5 /\ probe.page = 2 /\ probe.page_size = 2
    /\ probe.rets[1].total_pages = 3
    /\ probe.rets[1].has_next /\ probe.rets[1].has_previous

\* the scraped attributes of a listing record or of scraped data
ScrapedFields(r) ==
    <<r.brand, r.model, r.year, r.edition, r.engine, r.price_numeric, r.kilometers>>

KthPrice(g, k) ==
    CHOOSE p \in {vehicles[i].price_numeric : i \in LinkedPriced(g)} :
        /\ Cardinality({i \in LinkedPriced(g) : vehicles[i].price_numeric < p}) < k
        /\ Cardinality({i \in LinkedPriced(g) : vehicles[i].price_numeric <= p}) >= k

\* group g was just refreshed and has active priced listings
RefreshedPriced(g) == last.op = "refresh" /\ last.on = <<g>> /\ LinkedPriced(g) # {}

\* C26 (amended): median_price written by refresh is the middle element of
\* the sorted active prices when their count is odd, and the upper of the
\* two middle elements when their count is even.
C26_MedianUpperMiddle ==
    \A g \in CanonicalIds(canonicals) :
        RefreshedPriced(g)
            => LET n == Cardinality(LinkedPriced(g))
               IN  CanonicalById(canonicals, g).median_price = KthPrice(g, (n \div 2) + 1)

\* C26: median_price written by refresh is the middle element of the sorted
\* active prices when their count is odd, and the lower of the two middle
\* elements when their count is even.
C26_MedianLowerMiddle ==
    \A g \in CanonicalIds(canonicals) :
        RefreshedPriced(g)
            => LET n == Cardinality(LinkedPriced(g))
               IN  CanonicalById(canonicals, g).median_price = KthPrice(g, (n + 1) \div 2)

\* a group with two active prices, 845 and 870, has just been refreshed and
\* shows 870 as its median
C26_TwoPricesRefreshed ==
    \E g \in CanonicalIds(canonicals) :
        /\ RefreshedPriced(g)
        /\ Cardinality(LinkedPriced(g)) = 2
        /\ {vehicles[i].price_numeric : i \in LinkedPriced(g)} = {845, 870}
        /\ CanonicalById(canonicals, g).median_price = 870

(***************************************************************************)
(* The update endpoint of canonical vehicles, PUT /{canonical_id}          *)
(***************************************************************************)
StatusInactive == "inactive"

\* an update_one that looks the group up by the ObjectId of canonical_id
UpdateCanonicalVehicleByObjectId(canonical_id, update_data) ==
    /\ canonical_id \in CanonicalIds(canonicals)
    /\ canonicals' = [i \in DOMAIN canonicals |->
                         IF canonicals[i].id = ObjectId(canonical_id)
                         THEN SetFields(canonicals[i], update_data)
                         ELSE canonicals[i]]
    /\ last' = [NoCall EXCEPT !.op = "update_canonical", !.on = <<canonical_id, update_data>>]
    /\ UNCHANGED <<vehicles, workers, probe>>

\* 404 unless get_canonical_vehicle_by_id finds the group; then
\* update_one({"_id": canonical_id}, {"$set": update_dict}) with the path
\* string for _id, and the group is read back
UpdateCanonicalVehicle(canonical_id, update_data) ==
    /\ canonical_id \in CanonicalIds(canonicals)
    /\ canonicals' = [i \in DOMAIN canonicals |->
                         IF canonicals[i].id = IdString(canonical_id)
                         THEN SetFields(canonicals[i], update_data)
                         ELSE canonicals[i]]
    /\ last' = [NoCall EXCEPT !.op = "update_canonical", !.on = <<canonical_id, update_data>>]
    /\ UNCHANGED <<vehicles, workers, probe>>

\* the CanonicalVehicleUpdate bodies: a status
ReactivateUpdate == [status |-> StatusActive]
DeactivateUpdate == [status |-> StatusInactive]
CanonicalUpdates == {ReactivateUpdate, DeactivateUpdate}

\* the registry in sequential use, with the update endpoint
NextLifecycle ==
    \/ Next
    \/ \E c \in CanonicalIds(canonicals), u \in CanonicalUpdates : UpdateCanonicalVehicle(c, u)

SpecLifecycle == Init /\ [][NextLifecycle]_vars

GroupUnknown2020 == Attrs(sUnknown, sUnknown, s2020, None, None)
AnonymousGroups == {GroupEX, GroupNoYear, GroupUnknown2020}

AnonymousListings ==
    {Attrs(None, None, y, e, g) : y \in {None, s2020, s2019}, e \in {None, sEX}, g \in {None, s15Turbo}}

AnonymousStores ==
    {StoreOf(s) : s \in UNION {[1..n -> AnonymousGroups] : n \in 0..MaxCanonicals}}

InitAnonymous ==
    /\ canonicals \in AnonymousStores
    /\ vehicles = <<>>
    /\ last = NoCall
    /\ workers = NoWorkers
    /\ probe \in {[phase |-> "start", v |-> v, found |-> NoId, rets |-> <<>>] : v \in AnonymousListings}

SpecAnonymous == InitAnonymous /\ [][NextMatch]_vars

\* C28: a listing missing both brand and model is never matched to an
\* existing group on the strength of its other fields alone (an equal year,
\* say): resolve_or_create for such a listing always yields a group whose
\* brand and model are the literal "Unknown" placeholder, never a group
\* with a known brand or model.
C28_AnonymousYieldsUnknown ==
    \A k \in DOMAIN probe.rets :
        (~Truthy(probe.v.brand) /\ ~Truthy(probe.v.model))
            => /\ probe.rets[k].ret # NoId
               /\ CanonicalById(canonicals, probe.rets[k].ret).brand = sUnknown
               /\ CanonicalById(canonicals, probe.rets[k].ret).model = sUnknown

\* C29: a merge that moves no listing is a true no-op: whenever
\* merge(source, target) returns false, every listing's canonical-group
\* reference and every canonical group's status and statistics (the
\* source's status included) are the same as before the call.
C29_FalseMergeIsNoOp ==
    [][(last'.op = "merge" /\ ~last'.ok)
          => /\ \A i \in DOMAIN vehicles :
                   vehicles'[i].canonical_vehicle_id = vehicles[i].canonical_vehicle_id
             /\ canonicals' = canonicals]_vars

(***************************************************************************)
(* Concurrent create_or_update_vehicle calls re-scraping the listings of   *)
(* one group on one event loop. A coroutine runs without interruption      *)
(* between two awaits; the awaits are the find_one of the listing, the     *)
(* update_one of the listing, the find of the group's active listings and  *)
(* the update_one of the group's statistics.                               *)
(***************************************************************************)
\* the listings on file: MaxUpdated listings of ConfigA, created one after
\* the other, all linked to group 1, which was aggregated after each insert
RaceListings == [n \in 1..MaxUpdated |-> NewVehicle(VehicleData(n, ConfigA, Market85), n, 1)]

RaceInputs == {VehicleData(m, ConfigA, mk) : m \in 1..MaxUpdated, mk \in {Market85, Market87}}

RaceIdle == [pc |-> "idle", vd |-> VehicleData(0, ConfigA, MarketNone), at |-> 0, group |-> NoId,
             listings |-> <<>>]

InitRace ==
    /\ canonicals = <<WithStats(NewCanonical(ConfigA, 1), RaceListings)>>
    /\ vehicles = RaceListings
    /\ last = NoCall
    /\ workers = [p \in Workers |-> RaceIdle]
    /\ probe = NoProbe

\* create_or_update_vehicle(vd) is called and find_one answers with the
\* listing on file
RaceFound(p, vd) ==
    LET i == ExistingVehicle(vehicles, vd.mercadolibre_id)
    IN  /\ workers[p].pc \in {"idle", "done"}
        /\ i # 0
        /\ workers' = [workers EXCEPT ![p] =
                          [pc |-> "found", vd |-> vd, at |-> i,
                           group |-> vehicles[i].canonical_vehicle_id, listings |-> <<>>]]
        /\ UNCHANGED <<canonicals, vehicles, last, probe>>

\* update_one writes the scraped fields to the listing
RaceWritten(p) ==
    LET w == workers[p]
    IN  /\ w.pc = "found"
        /\ vehicles' = [vehicles EXCEPT ![w.at] = Rescraped(vehicles[w.at], w.vd)]
        /\ workers' = [workers EXCEPT ![p] =
                          [w EXCEPT !.pc = IF w.group # NoId THEN "written" ELSE "done"]]
        /\ UNCHANGED <<canonicals, last, probe>>

\* update_canonical_vehicle_stats reads the active listings of the group
RaceRead(p) ==
    LET w == workers[p]
        listings == ActiveListings(w.group, vehicles)
    IN  /\ w.pc = "written"
        /\ workers' = [workers EXCEPT ![p] =
                          [w EXCEPT !.pc = IF listings = <<>> THEN "done" ELSE "read",
                                    !.listings = listings]]
        /\ UNCHANGED <<canonicals, vehicles, last, probe>>

\* update_canonical_vehicle_stats writes the statistics it computed from
\* the listings it read, and create_or_update_vehicle returns
RaceStored(p) ==
    LET w == workers[p]
    IN  /\ w.pc = "read"
        /\ canonicals' = [i \in DOMAIN canonicals |->
                             IF canonicals[i].id = ObjectId(w.group)
                             THEN WithStats(canonicals[i], w.listings)
                             ELSE canonicals[i]]
        /\ workers' = [workers EXCEPT ![p] = [w EXCEPT !.pc = "done", !.listings = <<>>]]
        /\ UNCHANGED <<vehicles, last, probe>>

NextRace ==
    \/ \E p \in Workers, vd \in RaceInputs : RaceFound(p, vd)
    \/ \E p \in Workers : RaceWritten(p)
    \/ \E p \in Workers : RaceRead(p)
    \/ \E p \in Workers : RaceStored(p)

SpecRace == InitRace /\ [][NextRace]_vars

\* every call has completed
Quiescent == \A p \in Workers : workers[p].pc \in {"idle", "done"}

\* C30: statistics are consistent at quiescence under concurrency: for any
\* interleaving of concurrent create_or_update_vehicle calls (each a listing
\* write followed by a read-listings/compute/write-stats refresh) on
\* listings of the same group, once all calls have completed the group's
\* counts and price statistics equal the aggregate of its currently linked
\* active listings (no stale refresh result overwrites a newer one).
C30_ConsistentAtQuiescence ==
    Quiescent => \A g \in CanonicalIds(canonicals) :
                    LinkedPriced(g) # {} => ShowsAggregate(CanonicalById(canonicals, g), g)
====
